---- MODULE Spec2Model ----
(***************************************************************************)
(* A model of the knowledge-graph pipeline: KnowledgeExtractor             *)
(* (kg_extractor.py), GraphBuilder (kg_graph_builder.py) and Neo4jHandler  *)
(* (neo4j_handler.py).  Each component has its own specification over the  *)
(* shared variables; a component's variables stay at their initial value   *)
(* under the other components' specifications.                             *)
(***************************************************************************)
EXTENDS Bags, FiniteSets, Integers, Sequences, TLC

VARIABLES
    nodes,        \* Neo4j: the Entity nodes, records [id, name, graph_name]
    rels,         \* Neo4j: the RELATION relationships, a bag of [start, end, type, graph_name]
    neoOp,        \* Neo4j: the last handler call, [op, graph_name, triples]
    neoResult,    \* Neo4j: what the last handler call returned (get_all_triples: a bag of rows)
    storedUnder,  \* history: the <<graph name, triple>> pairs stored since the database was empty
    onlyStores,   \* history: no delete_graph has run since the database was empty
    graph,        \* GraphBuilder.graph: [built, nodes, edges]; built = FALSE is Python's None
    graphOp,      \* GraphBuilder: the last method call, [op, triples, source, target, top_n]
    graphResult,  \* GraphBuilder: what the last method call returned
    groq_api_key, \* KnowledgeExtractor.groq_api_key: [isNone, value]
    nlp,          \* KnowledgeExtractor.nlp: TRUE once the spaCy model is loaded (FALSE is None)
    exInput,      \* the call made on the extractor: [method, text, mode]
    exEnv,        \* what the outside answers during the call: [reply, doc, modelInstalled]
    exPc,         \* "ready" before the call, "done" after it
    exOutcome,    \* how the call ended: [kind, exc, value]
    exTrace       \* what the call did on the way: [ran, clients, requests]

neoVars == <<nodes, rels, neoOp, neoResult, storedUnder, onlyStores>>

graphVars == <<graph, graphOp, graphResult>>

exVars == <<groq_api_key, nlp, exInput, exEnv, exPc, exOutcome, exTrace>>

vars == <<nodes, rels, neoOp, neoResult, storedUnder, onlyStores,
          graph, graphOp, graphResult,
          groq_api_key, nlp, exInput, exEnv, exPc, exOutcome, exTrace>>

(***************************************************************************)
(* Values shared by the components                                         *)
(***************************************************************************)

\* Python's None.
NoneVal == "None"

\* The longest list of triples a call is given.
MaxTriples == 2

Triple(s, p, o) == [subject |-> s, predicate |-> p, object |-> o]

RECURSIVE SeqsUpTo(_, _)
SeqsUpTo(S, n) ==
    IF n = 0 THEN {<<>>}
    ELSE LET shorter == SeqsUpTo(S, n - 1)
         IN  shorter \cup {Append(q, x) : q \in {r \in shorter : Len(r) = n - 1}, x \in S}

(***************************************************************************)
(* Neo4jHandler                                                            *)
(***************************************************************************)

\* The graph names the handler is called with.
GraphNames == {"g", "h"}

\* The triples the handler is given: two relations between the same pair of
\* entities, and one that shares an entity with them.
NeoTriples ==
    { Triple("a", "p", "b"), Triple("a", "q", "b"), Triple("b", "p", "c") }

NeoTripleLists == SeqsUpTo(NeoTriples, MaxTriples)

\* The database hands a created node the smallest identity not in use.
FreshId(ns) ==
    LET used == {n.id : n \in ns}
    IN  CHOOSE i \in 0..Cardinality(ns) :
            /\ i \notin used
            /\ \A j \in 0..Cardinality(ns) : j \notin used => i <= j

\* MERGE (x:Entity {name: $name}): binds the nodes of that name, and creates
\* one (with no graph_name yet) only when there is none.
MergeEntity(ns, name) ==
    IF \E n \in ns : n.name = name
    THEN ns
    ELSE ns \cup {[id |-> FreshId(ns), name |-> name, graph_name |-> NoneVal]}

\* SET x.graph_name = $graph_name, for every node MERGE bound.
SetGraphName(ns, name, g) ==
    {IF n.name = name THEN [n EXCEPT !.graph_name = g] ELSE n : n \in ns}

\* The relationships the last MERGE of the query asks for: one per bound
\* (s, o) pair.
WantedRelations(ns, subject, predicate, obj, g) ==
    { [start |-> s.id, end |-> o.id, type |-> predicate, graph_name |-> g] :
        s \in {n \in ns : n.name = subject}, o \in {n \in ns : n.name = obj} }

\* CREATE (s)-[r:RELATION {...}]->(o): one more relationship per pair, whether
\* or not one is there.
CreateRelation(ns, rs, subject, predicate, obj, g) ==
    rs (+) SetToBag(WantedRelations(ns, subject, predicate, obj, g))

\* MERGE (s)-[r:RELATION {type: $predicate, graph_name: $graph_name}]->(o):
\* creates the relationship only when none with these properties joins s to o.
MergeRelation(ns, rs, subject, predicate, obj, g) ==
    rs (+) SetToBag({r \in WantedRelations(ns, subject, predicate, obj, g) :
                        ~BagIn(r, rs)})

\* One run of store_triples' query, on the database d = [nodes, rels].
RunStoreQuery(d, triple, g) ==
    LET n1 == MergeEntity(d.nodes, triple.subject)
        n2 == SetGraphName(n1, triple.subject, g)
        n3 == MergeEntity(n2, triple.object)
        n4 == SetGraphName(n3, triple.object, g)
    IN  [nodes |-> n4,
         rels  |-> MergeRelation(n4, d.rels, triple.subject, triple.predicate,
                                 triple.object, g)]

\* store_triples: the query once per triple, in list order.
RECURSIVE StoreTriples(_, _, _)
StoreTriples(d, triples, g) ==
    IF triples = <<>> THEN d
    ELSE StoreTriples(RunStoreQuery(d, Head(triples), g), Tail(triples), g)

\* MATCH (e:Entity {graph_name: $graph_name}) DETACH DELETE e
DeleteGraphQuery(d, g) ==
    LET gone == {n.id : n \in {m \in d.nodes : m.graph_name = g}}
        kept == {r \in DOMAIN d.rels : r.start \notin gone /\ r.end \notin gone}
    IN  [nodes |-> {n \in d.nodes : n.graph_name # g},
         rels  |-> [r \in kept |-> d.rels[r]]]

NodeOf(ns, id) == CHOOSE n \in ns : n.id = id

\* RETURN s.name as subject, r.type as predicate, o.name as object
RowOf(ns, r) == Triple(NodeOf(ns, r.start).name, r.type, NodeOf(ns, r.end).name)

RECURSIVE BagSum(_, _)
BagSum(rs, S) ==
    IF S = {} THEN 0
    ELSE LET r == CHOOSE x \in S : TRUE IN rs[r] + BagSum(rs, S \ {r})

\* The rows of the matched relationships, one per relationship.
RowsOf(ns, rs, matched) ==
    LET rows == {RowOf(ns, r) : r \in matched}
    IN  [t \in rows |-> BagSum(rs, {r \in matched : RowOf(ns, r) = t})]

\* get_all_triples: with a graph name, the relationships whose start node
\* carries that graph_name; without one (None or ""), every relationship.
GetAllTriples(d, g) ==
    IF g # NoneVal /\ g # ""
    THEN RowsOf(d.nodes, d.rels,
                {r \in DOMAIN d.rels : NodeOf(d.nodes, r.start).graph_name = g})
    ELSE RowsOf(d.nodes, d.rels, DOMAIN d.rels)

Database == [nodes |-> nodes, rels |-> rels]

NoOp == [op |-> "none", graph_name |-> NoneVal, triples |-> <<>>]

NeoInit ==
    /\ nodes = {}
    /\ rels = EmptyBag
    /\ neoOp = NoOp
    /\ neoResult = NoneVal
    /\ storedUnder = {}
    /\ onlyStores = TRUE

Range(q) == {q[i] : i \in DOMAIN q}

StoreTriplesCall(triples, g) ==
    LET d == StoreTriples(Database, triples, g)
    IN  /\ nodes' = d.nodes
        /\ rels' = d.rels
        /\ neoOp' = [op |-> "store_triples", graph_name |-> g, triples |-> triples]
        /\ storedUnder' = IF onlyStores
                          THEN storedUnder \cup {<<g, t>> : t \in Range(triples)}
                          ELSE storedUnder
        /\ neoResult' = NoneVal
        /\ UNCHANGED <<onlyStores, graphVars, exVars>>

DeleteGraphCall(g) ==
    LET d == DeleteGraphQuery(Database, g)
    IN  /\ nodes' = d.nodes
        /\ rels' = d.rels
        /\ neoOp' = [op |-> "delete_graph", graph_name |-> g, triples |-> <<>>]
        /\ storedUnder' = {}
        /\ onlyStores' = FALSE
        /\ neoResult' = NoneVal
        /\ UNCHANGED <<graphVars, exVars>>

GetAllTriplesCall(g) ==
    /\ neoResult' = GetAllTriples(Database, g)
    /\ neoOp' = [op |-> "get_all_triples", graph_name |-> g, triples |-> <<>>]
    /\ UNCHANGED <<nodes, rels, storedUnder, onlyStores, graphVars, exVars>>

\* clear_database: graph.delete_all()
ClearDatabaseCall ==
    /\ nodes' = {}
    /\ rels' = EmptyBag
    /\ neoOp' = [op |-> "clear_database", graph_name |-> NoneVal, triples |-> <<>>]
    /\ storedUnder' = {}
    /\ onlyStores' = TRUE
    /\ neoResult' = NoneVal
    /\ UNCHANGED <<graphVars, exVars>>

StoreTriplesStep == \E triples \in NeoTripleLists, g \in GraphNames : StoreTriplesCall(triples, g)
DeleteGraphStep == \E g \in GraphNames : DeleteGraphCall(g)
GetAllTriplesStep == \E g \in GraphNames \cup {NoneVal} : GetAllTriplesCall(g)

NeoNext ==
    \/ StoreTriplesStep
    \/ DeleteGraphStep
    \/ GetAllTriplesStep
    \/ ClearDatabaseCall



(***************************************************************************)
(* GraphBuilder                                                            *)
(***************************************************************************)

\* The longest list of triples build_graph is given.
MaxGraphTriples == 3

\* Node names are Python strings: sequences of characters.
NodeA == <<"a">>
NodeB == <<"b">>
NodeC == <<"c">>
\* Strings that name no node of any graph built here.
NameZ == <<"z">>
NameBZ == <<"b", "z">>

\* The triples build_graph is given: two predicates between the same pair,
\* two routes from a to c, and a cycle.
GraphTriples ==
    { Triple(NodeA, "p", NodeB), Triple(NodeA, "q", NodeB), Triple(NodeB, "p", NodeC),
      Triple(NodeA, "p", NodeC), Triple(NodeC, "p", NodeA) }

GraphTripleLists == SeqsUpTo(GraphTriples, MaxGraphTriples)

Sources == {NodeA, NodeB, NodeC, NameZ}
Targets == {NodeA, NodeB, NodeC, NameZ, NameBZ}

\* nx.DiGraph(): no node, no edge.  nodes and edges are kept in insertion
\* order, as the library's dictionaries keep them.
EmptyDiGraph == [built |-> TRUE, nodes |-> <<>>, edges |-> <<>>]

\* self.graph = None
NoGraph == [built |-> FALSE, nodes |-> <<>>, edges |-> <<>>]

AddNode(ns, n) == IF n \in Range(ns) THEN ns ELSE Append(ns, n)

\* MultiDiGraph.add_edge: every call adds an edge, parallel edges are kept.
AddEdgeParallel(g, u, v, label) ==
    [built |-> TRUE,
     nodes |-> AddNode(AddNode(g.nodes, u), v),
     edges |-> Append(g.edges, [source |-> u, target |-> v, label |-> label])]

\* DiGraph.add_edge(u, v, label=...): adds the missing nodes; a DiGraph holds
\* one edge per ordered pair, so an edge already there only has its label
\* attribute updated.
AddEdge(g, u, v, label) ==
    [built |-> TRUE,
     nodes |-> AddNode(AddNode(g.nodes, u), v),
     edges |-> IF \E i \in DOMAIN g.edges : g.edges[i].source = u /\ g.edges[i].target = v
               THEN [i \in DOMAIN g.edges |->
                        IF g.edges[i].source = u /\ g.edges[i].target = v
                        THEN [g.edges[i] EXCEPT !.label = label]
                        ELSE g.edges[i]]
               ELSE Append(g.edges, [source |-> u, target |-> v, label |-> label])]

\* build_graph: a new DiGraph, then one add_edge per triple in list order.
RECURSIVE AddTriples(_, _)
AddTriples(g, triples) ==
    IF triples = <<>> THEN g
    ELSE AddTriples(AddEdge(g, Head(triples).subject, Head(triples).object,
                            Head(triples).predicate),
                    Tail(triples))

BuildGraph(triples) == AddTriples(EmptyDiGraph, triples)

\* G[u]: the successors of u, in insertion order.
RECURSIVE Successors(_, _)
Successors(es, u) ==
    IF es = <<>> THEN <<>>
    ELSE IF Head(es).source = u
         THEN <<Head(es).target>> \o Successors(Tail(es), u)
         ELSE Successors(Tail(es), u)

\* The library's depth-first search: from the end of path, every successor
\* not on the path is tried in order; a path that reaches a target is
\* yielded, and the search goes on through that node while a target is still
\* off the path.
RECURSIVE SearchFrom(_, _, _, _)
SearchFrom(es, path, children, targets) ==
    IF children = <<>> THEN <<>>
    ELSE LET child == Head(children)
             longer == Append(path, child)
             here == IF child \in targets THEN <<longer>> ELSE <<>>
             deeper == IF targets \ Range(longer) # {}
                       THEN SearchFrom(es, longer, Successors(es, child), targets)
                       ELSE <<>>
         IN  IF child \in Range(path)
             THEN SearchFrom(es, path, Tail(children), targets)
             ELSE here \o deeper \o SearchFrom(es, path, Tail(children), targets)

\* set(target): the characters of a string, each a one-character string.
CharSet(str) == {<<str[i]>> : i \in DOMAIN str}

\* nx.all_simple_paths(G, source, target).  A source that is no node raises
\* NodeNotFound.  A target that is no node is read as an iterable of target
\* nodes, and a string is an iterable of its characters.  With the source
\* among the targets, the library yields nothing or (newer releases, trivial
\* = TRUE) the one-node path first and then searches on.
AllSimplePaths(g, source, target, trivial) ==
    IF source \notin Range(g.nodes) THEN [raised |-> "NodeNotFound", paths |-> <<>>]
    ELSE LET targets == IF target \in Range(g.nodes) THEN {target} ELSE CharSet(target)
             search == IF targets \ {source} # {}
                       THEN SearchFrom(g.edges, <<source>>, Successors(g.edges, source), targets)
                       ELSE <<>>
         IN  [raised |-> "",
              paths  |-> IF source \in targets
                         THEN IF trivial THEN <<<<source>>>> \o search ELSE <<>>
                         ELSE search]

\* find_paths: [] without a graph or on NodeNotFound, else the list of paths.
FindPaths(g, source, target, trivial) ==
    IF ~g.built THEN <<>>
    ELSE LET found == AllSimplePaths(g, source, target, trivial)
         IN  IF found.raised = "NodeNotFound" THEN <<>> ELSE found.paths

\* G.degree(n) of a DiGraph: in-degree plus out-degree (a self-loop counts
\* on both sides).
RECURSIVE Degree(_, _)
Degree(es, n) ==
    IF es = <<>> THEN 0
    ELSE (IF Head(es).source = n THEN 1 ELSE 0) + (IF Head(es).target = n THEN 1 ELSE 0)
         + Degree(Tail(es), n)

\* A quotient the library computes in floating point, kept as a fraction
\* with a positive denominator.
Fraction(num, den) == [num |-> num, den |-> den]

\* a < b for two such quotients.
Less(a, b) == a.num * b.den < b.num * a.den

\* nx.degree_centrality(G): 1 for every node when the graph has at most one
\* node, else degree * (1 / (len(G) - 1)); the dictionary is in node order.
DegreeCentrality(g) ==
    [i \in DOMAIN g.nodes |->
        [node  |-> g.nodes[i],
         score |-> IF Len(g.nodes) <= 1 THEN Fraction(1, 1)
                   ELSE Fraction(Degree(g.edges, g.nodes[i]), Len(g.nodes) - 1)]]

\* The variant without reverse=True: ascending scores.
RECURSIVE InsertAscending(_, _)
InsertAscending(sorted, item) ==
    IF sorted = <<>> THEN <<item>>
    ELSE IF Less(item.score, Head(sorted).score)
         THEN <<item>> \o sorted
         ELSE <<Head(sorted)>> \o InsertAscending(Tail(sorted), item)

\* One step of sorted(..., key=score, reverse=True): the sort is stable, so
\* an item goes after every item whose score is not lower.
RECURSIVE InsertByScore(_, _)
InsertByScore(sorted, item) ==
    IF sorted = <<>> THEN <<item>>
    ELSE IF Less(Head(sorted).score, item.score)
         THEN <<item>> \o sorted
         ELSE <<Head(sorted)>> \o InsertByScore(Tail(sorted), item)

RECURSIVE SortedByScore(_)
SortedByScore(items) ==
    IF items = <<>> THEN <<>>
    ELSE InsertByScore(SortedByScore(SubSeq(items, 1, Len(items) - 1)),
                       items[Len(items)])

\* list[:k]: the first k items, or all but the last -k when k is negative.
Slice(list, k) ==
    LET stop == IF k >= 0 THEN (IF k < Len(list) THEN k ELSE Len(list))
                ELSE (IF Len(list) + k > 0 THEN Len(list) + k ELSE 0)
    IN  SubSeq(list, 1, stop)

\* get_central_nodes: [] without a graph or without a node, else the
\* (node, score) pairs sorted by descending score, cut to top_n.
GetCentralNodes(g, top_n) ==
    IF ~g.built \/ Len(g.nodes) = 0 THEN <<>>
    ELSE Slice(SortedByScore(DegreeCentrality(g)), top_n)

\* The nodes joined to a node of S by an edge in either direction.
Neighbours(es, S) ==
    S \cup {es[i].target : i \in {j \in DOMAIN es : es[j].source \in S}}
      \cup {es[i].source : i \in {j \in DOMAIN es : es[j].target \in S}}

RECURSIVE Component(_, _)
Component(es, S) ==
    IF Neighbours(es, S) = S THEN S ELSE Component(es, Neighbours(es, S))

\* nx.number_weakly_connected_components: nodes are taken in order, each one
\* not seen yet opens a component.
RECURSIVE CountComponents(_, _, _)
CountComponents(es, ns, seen) ==
    IF ns = <<>> THEN 0
    ELSE IF Head(ns) \in seen THEN CountComponents(es, Tail(ns), seen)
         ELSE 1 + CountComponents(es, Tail(ns), seen \cup Component(es, {Head(ns)}))

RECURSIVE SumDegrees(_, _)
SumDegrees(es, ns) ==
    IF ns = <<>> THEN 0 ELSE Degree(es, Head(ns)) + SumDegrees(es, Tail(ns))

\* nx.density of a directed graph: 0 without an edge or with at most one
\* node, else m / (n * (n - 1)).
Density(g) ==
    IF Len(g.edges) = 0 \/ Len(g.nodes) <= 1 THEN Fraction(0, 1)
    ELSE Fraction(Len(g.edges), Len(g.nodes) * (Len(g.nodes) - 1))

\* The dictionary get_graph_stats returns; empty marks {}.
EmptyStats ==
    [empty |-> TRUE, num_nodes |-> 0, num_edges |-> 0,
     num_connected_components |-> 0,
     avg_degree |-> Fraction(0, 1), density |-> Fraction(0, 1)]

\* get_graph_stats: {} without a graph, else the five statistics.
GetGraphStats(g) ==
    IF ~g.built THEN EmptyStats
    ELSE [empty |-> FALSE,
          num_nodes |-> Len(g.nodes),
          num_edges |-> Len(g.edges),
          num_connected_components |-> CountComponents(g.edges, g.nodes, {}),
          avg_degree |-> Fraction(SumDegrees(g.edges, g.nodes),
                                  IF Len(g.nodes) > 1 THEN Len(g.nodes) ELSE 1),
          density |-> Density(g)]

\* The top_n values get_central_nodes is called with.
MaxTopN == 4
TopNs == -1 .. MaxTopN

GraphInit ==
    /\ graph = NoGraph
    /\ graphOp = [op |-> "none", triples |-> <<>>, source |-> <<>>, target |-> <<>>,
                  top_n |-> 0]
    /\ graphResult = NoneVal

BuildGraphCall(triples) ==
    /\ graph' = BuildGraph(triples)
    /\ graphOp' = [op |-> "build_graph", triples |-> triples,
                   source |-> <<>>, target |-> <<>>, top_n |-> 0]
    /\ graphResult' = graph'
    /\ UNCHANGED <<neoVars, exVars>>

FindPathsCall(source, target, trivial) ==
    /\ graphResult' = FindPaths(graph, source, target, trivial)
    /\ graphOp' = [op |-> "find_paths", triples |-> <<>>, source |-> source,
                   target |-> target, top_n |-> 0]
    /\ UNCHANGED <<graph, neoVars, exVars>>

GetCentralNodesCall(top_n) ==
    /\ graphResult' = GetCentralNodes(graph, top_n)
    /\ graphOp' = [op |-> "get_central_nodes", triples |-> <<>>, source |-> <<>>,
                   target |-> <<>>, top_n |-> top_n]
    /\ UNCHANGED <<graph, neoVars, exVars>>

GetGraphStatsCall ==
    /\ graphResult' = GetGraphStats(graph)
    /\ graphOp' = [op |-> "get_graph_stats", triples |-> <<>>, source |-> <<>>,
                   target |-> <<>>, top_n |-> 0]
    /\ UNCHANGED <<graph, neoVars, exVars>>

BuildGraphStep == \E triples \in GraphTripleLists : BuildGraphCall(triples)
FindPathsStep ==
    \E source \in Sources, target \in Targets, trivial \in BOOLEAN :
        FindPathsCall(source, target, trivial)
GetCentralNodesStep == \E top_n \in TopNs : GetCentralNodesCall(top_n)

GraphNext ==
    \/ BuildGraphStep
    \/ FindPathsStep
    \/ GetCentralNodesStep
    \/ GetGraphStatsCall


(***************************************************************************)
(* KnowledgeExtractor: strings                                             *)
(***************************************************************************)

\* A Python str is a sequence of one-character strings.  An optional str is
\* [isNone, value].
PyNone == [isNone |-> TRUE, value |-> <<>>]
PyStr(chars) == [isNone |-> FALSE, value |-> chars]

\* Python's truth value of an optional str: None and "" are false.
Truthy(v) == ~v.isNone /\ v.value # <<>>

IsSpace(c) == c \in {" ", "\n", "\t"}

RECURSIVE LStrip(_)
LStrip(str) ==
    IF str # <<>> /\ IsSpace(Head(str)) THEN LStrip(Tail(str)) ELSE str

RECURSIVE RStrip(_)
RStrip(str) ==
    IF str # <<>> /\ IsSpace(str[Len(str)])
    THEN RStrip(SubSeq(str, 1, Len(str) - 1))
    ELSE str

\* str.strip()
Strip(str) == RStrip(LStrip(str))

UpperLetters ==
    <<"A", "B", "C", "D", "E", "F", "G", "H", "I", "J", "K", "L", "M",
      "N", "O", "P", "Q", "R", "S", "T", "U", "V", "W", "X", "Y", "Z">>
LowerLetters ==
    <<"a", "b", "c", "d", "e", "f", "g", "h", "i", "j", "k", "l", "m",
      "n", "o", "p", "q", "r", "s", "t", "u", "v", "w", "x", "y", "z">>

LowerChar(c) ==
    IF \E k \in DOMAIN UpperLetters : UpperLetters[k] = c
    THEN LowerLetters[CHOOSE k \in DOMAIN UpperLetters : UpperLetters[k] = c]
    ELSE c

\* str.lower()
Lower(str) == [i \in DOMAIN str |-> LowerChar(str[i])]

\* sub in str, for two strs
Contains(str, sub) ==
    \E i \in 0..(Len(str) - Len(sub)) : SubSeq(str, i + 1, i + Len(sub)) = sub

\* " ".join(words)
RECURSIVE Join(_)
Join(words) ==
    IF words = <<>> THEN <<>>
    ELSE IF Len(words) = 1 THEN Head(words)
    ELSE Head(words) \o <<" ">> \o Join(Tail(words))

RequiredKeys == <<"subject", "predicate", "object">>

KeyChars ==
    [subject   |-> <<"s", "u", "b", "j", "e", "c", "t">>,
     predicate |-> <<"p", "r", "e", "d", "i", "c", "a", "t", "e">>,
     object    |-> <<"o", "b", "j", "e", "c", "t">>]

(***************************************************************************)
(* KnowledgeExtractor.extract_with_llm                                     *)
(***************************************************************************)

\* A parsed JSON value: [type, s, items, fields].  type is "str", "num",
\* "null", "list" or "dict"; s holds the characters of a str or a num, items
\* the elements of a list, fields the <<key, value>> pairs of a dict in
\* document order.
JStr(chars) == [type |-> "str", s |-> chars, items |-> <<>>, fields |-> <<>>]
JNum(digits) == [type |-> "num", s |-> digits, items |-> <<>>, fields |-> <<>>]
JNull == [type |-> "null", s |-> <<>>, items |-> <<>>, fields |-> <<>>]
JList(items) == [type |-> "list", s |-> <<>>, items |-> items, fields |-> <<>>]
JDict(fields) == [type |-> "dict", s |-> <<>>, items |-> <<>>, fields |-> fields]
Field(k, v) == [key |-> k, value |-> v]

\* The model's answer is a sequence of lexemes [kind, value]: "fence_json"
\* (```json), "fence" (```), "newline" (one \n), "spaces" (other white
\* space), "json" (the text of one JSON value, with that value) and "prose"
\* (text that is no JSON).
Lex(kind) == [kind |-> kind, value |-> JNull]
LexJson(v) == [kind |-> "json", value |-> v]
IsWhite(lx) == lx.kind \in {"newline", "spaces"}

RECURSIVE DropLeadingWhite(_)
DropLeadingWhite(content) ==
    IF content # <<>> /\ IsWhite(Head(content))
    THEN DropLeadingWhite(Tail(content))
    ELSE content

RECURSIVE DropTrailingWhite(_)
DropTrailingWhite(content) ==
    IF content # <<>> /\ IsWhite(content[Len(content)])
    THEN DropTrailingWhite(SubSeq(content, 1, Len(content) - 1))
    ELSE content

\* re.sub(r'^```json\s*', '', result)
RemoveOpeningFence(content) ==
    IF content # <<>> /\ Head(content).kind = "fence_json"
    THEN DropLeadingWhite(Tail(content))
    ELSE content

\* re.sub(r'\s*```$', '', result): $ matches at the end and before one final
\* newline, which the substitution leaves in place.
RemoveClosingFence(content) ==
    LET n == Len(content)
    IN  IF n >= 1 /\ content[n].kind = "fence"
        THEN DropTrailingWhite(SubSeq(content, 1, n - 1))
        ELSE IF n >= 2 /\ content[n].kind = "newline" /\ content[n - 1].kind = "fence"
        THEN Append(DropTrailingWhite(SubSeq(content, 1, n - 2)), content[n])
        ELSE content

\* The three cleaning statements, the last one result.strip().
CleanResponse(content) ==
    DropTrailingWhite(DropLeadingWhite(RemoveClosingFence(RemoveOpeningFence(content))))

\* json.loads: the cleaned text must be exactly one JSON value.
JsonLoads(content) ==
    IF Len(content) = 1 /\ content[1].kind = "json"
    THEN [raised |-> "", value |-> content[1].value]
    ELSE [raised |-> "JSONDecodeError", value |-> JNull]

\* key in triple: a dict is asked for the key, a list for an equal element,
\* a str for a substring; any other value is not iterable.
KeyIn(key, v) ==
    CASE v.type = "dict" -> [raised |-> "", holds |-> \E i \in DOMAIN v.fields : v.fields[i].key = key]
      [] v.type = "list" -> [raised |-> "", holds |-> \E i \in DOMAIN v.items : v.items[i] = JStr(KeyChars[key])]
      [] v.type = "str"  -> [raised |-> "", holds |-> Contains(v.s, KeyChars[key])]
      [] OTHER           -> [raised |-> "TypeError", holds |-> FALSE]

\* all(key in triple for key in ['subject', 'predicate', 'object']), which
\* stops at the first key that is missing or raises.
RECURSIVE AllKeysIn(_, _)
AllKeysIn(keys, v) ==
    IF keys = <<>> THEN [raised |-> "", holds |-> TRUE]
    ELSE LET first == KeyIn(Head(keys), v)
         IN  IF first.raised # "" \/ ~first.holds THEN first
             ELSE AllKeysIn(Tail(keys), v)

\* triple[key] on a dict: the value of the key's last occurrence.
Lookup(v, key) ==
    LET at == {i \in DOMAIN v.fields : v.fields[i].key = key}
    IN  v.fields[CHOOSE i \in at : \A j \in at : j <= i].value

\* str(value)
Str(v) ==
    CASE v.type = "null" -> <<"N", "o", "n", "e">>
      [] OTHER -> v.s

\* The dict as parsed, every value through str().strip(), all its keys kept.
WholeDict(v) ==
    [k \in {v.fields[i].key : i \in DOMAIN v.fields} |-> Strip(Str(Lookup(v, k)))]

\* The dict appended to valid_triples: the three keys, each value through
\* str().strip().
CleanTriple(v) ==
    [subject   |-> Strip(Str(Lookup(v, "subject"))),
     predicate |-> Strip(Str(Lookup(v, "predicate"))),
     object    |-> Strip(Str(Lookup(v, "object")))]

\* The validation loop: a dict with the three keys is appended, a value
\* without them is skipped; a list or str that holds the three keys raises
\* at triple['subject'].
RECURSIVE ValidTriples(_)
ValidTriples(triples) ==
    IF triples = <<>> THEN [raised |-> "", value |-> <<>>]
    ELSE LET triple == Head(triples)
             has == AllKeysIn(RequiredKeys, triple)
             rest == ValidTriples(Tail(triples))
         IN  IF has.raised # "" THEN [raised |-> has.raised, value |-> <<>>]
             ELSE IF ~has.holds THEN rest
             ELSE IF triple.type # "dict" THEN [raised |-> "TypeError", value |-> <<>>]
             ELSE IF rest.raised # "" THEN rest
             ELSE [raised |-> "", value |-> <<CleanTriple(triple)>> \o rest.value]

Returned(value) == [kind |-> "return", exc |-> "", value |-> value]
Raised(exc) == [kind |-> "raise", exc |-> exc, value |-> <<>>]

\* The variant with no handler around the request and the parsing: the
\* exception leaves the method.
Uncaught(exc) == Raised(exc)

\* except json.JSONDecodeError / except Exception: both print and return [].
Caught(exc) == Returned(<<>>)

\* The body of the try statement, after the request: every exception ends in
\* one of the two handlers, which return [].
ParseReply(reply) ==
    IF reply.error THEN Caught("Exception")
    ELSE IF reply.contentIsNone THEN Caught("TypeError")
    ELSE LET parsed == JsonLoads(CleanResponse(reply.content))
             triples == IF parsed.value.type = "list" THEN parsed.value.items
                        ELSE <<parsed.value>>
             valid == ValidTriples(triples)
         IN  IF parsed.raised # "" THEN Caught(parsed.raised)
             ELSE IF valid.raised # "" THEN Caught(valid.raised)
             ELSE Returned(valid.value)

\* self.groq_api_key is None
KeyIsNone(key) == key.isNone

\* not self.groq_api_key
KeyMissing(key) == ~Truthy(key)

\* The request made again after a failure or an empty result.
RequestsWithRetry(reply) ==
    IF reply.error \/ reply.contentIsNone \/ ParseReply(reply).value = <<>> THEN 2 ELSE 1

\* The calls of client.chat.completions.create one extract_with_llm makes.
RequestsMade(reply) == 1

\* extract_with_llm: [outcome, trace].
ExtractWithLlm(key, reply, trace) ==
    LET entered == [trace EXCEPT !.ran = @ \cup {"llm"}]
    IN  IF KeyMissing(key)
        THEN [outcome |-> Raised("ValueError"), trace |-> entered]
        ELSE [outcome |-> ParseReply(reply),
              trace |-> [entered EXCEPT !.clients = @ + 1,
                                        !.requests = @ + RequestsMade(reply)]]


(***************************************************************************)
(* KnowledgeExtractor.extract_with_spacy                                   *)
(***************************************************************************)

\* A token of the parse: [i, text, lemma, pos, dep, head]; head is the i of
\* the token it hangs from (its own i for the root).  A sentence is its
\* tokens in order of i, a doc its sentences.
Tok(i, text, lemma, pos, dep, head) ==
    [i |-> i, text |-> text, lemma |-> lemma, pos |-> pos, dep |-> dep, head |-> head]

\* token.children, in order of i.
RECURSIVE ChildrenOf(_, _)
ChildrenOf(sent, i) ==
    IF sent = <<>> THEN <<>>
    ELSE IF Head(sent).head = i /\ Head(sent).i # i
         THEN <<Head(sent)>> \o ChildrenOf(Tail(sent), i)
         ELSE ChildrenOf(Tail(sent), i)

RECURSIVE Modifiers(_)
Modifiers(children) ==
    IF children = <<>> THEN <<>>
    ELSE IF Head(children).dep \in {"det", "amod", "compound", "poss"}
         THEN <<Head(children)>> \o Modifiers(Tail(children))
         ELSE Modifiers(Tail(children))

RECURSIVE InsertByIndex(_, _)
InsertByIndex(sorted, tok) ==
    IF sorted = <<>> THEN <<tok>>
    ELSE IF tok.i < Head(sorted).i THEN <<tok>> \o sorted
    ELSE <<Head(sorted)>> \o InsertByIndex(Tail(sorted), tok)

\* phrase_tokens.sort(key=lambda t: t.i)
RECURSIVE SortByIndex(_)
SortByIndex(toks) ==
    IF toks = <<>> THEN <<>>
    ELSE InsertByIndex(SortByIndex(Tail(toks)), Head(toks))

\* _get_full_phrase: the token and its det/amod/compound/poss children, in
\* sentence order, joined by spaces.
GetFullPhrase(sent, tok) ==
    LET phrase_tokens == SortByIndex(<<tok>> \o Modifiers(ChildrenOf(sent, tok.i)))
    IN  Join([k \in DOMAIN phrase_tokens |-> phrase_tokens[k].text])

\* The three variables of the sentence loop; <<>> stands for None, which the
\* code tells from a phrase only by its truth value.
NothingFound == [subject |-> <<>>, predicate |-> <<>>, obj |-> <<>>]

\* for prep_child in child.children: a pobj is used only while obj is
\* empty, and then the preposition is appended to the predicate.
RECURSIVE VisitPrepChildren(_, _, _, _)
VisitPrepChildren(sent, prep, prep_children, st) ==
    IF prep_children = <<>> THEN st
    ELSE LET prep_child == Head(prep_children)
             next == IF prep_child.dep = "pobj" /\ st.obj = <<>>
                     THEN [st EXCEPT !.obj = GetFullPhrase(sent, prep_child),
                                     !.predicate = st.predicate \o <<" ">> \o prep.text]
                     ELSE st
         IN  VisitPrepChildren(sent, prep, Tail(prep_children), next)

\* for child in token.children
RECURSIVE VisitChildren(_, _, _)
VisitChildren(sent, children, st) ==
    IF children = <<>> THEN st
    ELSE LET child == Head(children)
             next ==
                 CASE child.dep \in {"nsubj", "nsubjpass"} ->
                          [st EXCEPT !.subject = GetFullPhrase(sent, child)]
                   [] child.dep \in {"dobj", "attr", "oprd"} ->
                          [st EXCEPT !.obj = GetFullPhrase(sent, child)]
                   [] child.dep = "prep" ->
                          VisitPrepChildren(sent, child, ChildrenOf(sent, child.i), st)
                   [] OTHER -> st
         IN  VisitChildren(sent, Tail(children), next)

\* token.pos_ == "VERB"
IsAnyVerb(token) == token.pos = "VERB"

\* token.pos_ == "VERB" and token.dep_ == "ROOT"
IsRootVerb(token) == token.pos = "VERB" /\ token.dep = "ROOT"

\* for token in sent
RECURSIVE VisitTokens(_, _, _)
VisitTokens(sent, tokens, st) ==
    IF tokens = <<>> THEN st
    ELSE LET token == Head(tokens)
             next == IF IsRootVerb(token)
                     THEN VisitChildren(sent, ChildrenOf(sent, token.i),
                                        [st EXCEPT !.predicate = token.lemma])
                     ELSE st
         IN  VisitTokens(sent, Tail(tokens), next)

SpacyTriple(st) ==
    [subject |-> st.subject, predicate |-> st.predicate, object |-> st.obj]

\* triples.append({...}) without the test
AppendAlways(st) == <<SpacyTriple(st)>>

\* if subject and predicate and obj: triples.append({...})
AppendIfComplete(st) ==
    IF st.subject # <<>> /\ st.predicate # <<>> /\ st.obj # <<>>
    THEN <<SpacyTriple(st)>>
    ELSE <<>>

\* One round of the sentence loop: what it appends to triples.
SentenceTriples(sent) == AppendIfComplete(VisitTokens(sent, sent, NothingFound))

\* for sent in doc.sents
RECURSIVE DocTriples(_)
DocTriples(doc) ==
    IF doc = <<>> THEN <<>>
    ELSE SentenceTriples(Head(doc)) \o DocTriples(Tail(doc))

\* extract_with_spacy: [outcome, nlp, trace].  _load_spacy_model loads the
\* model once and raises Exception when it is not installed.
ExtractWithSpacy(loaded, env, trace) ==
    LET entered == [trace EXCEPT !.ran = @ \cup {"spacy"}]
    IN  IF ~loaded /\ ~env.modelInstalled
        THEN [outcome |-> Raised("Exception"), nlp |-> FALSE, trace |-> entered]
        ELSE [outcome |-> Returned(DocTriples(env.doc)), nlp |-> TRUE, trace |-> entered]

(***************************************************************************)
(* KnowledgeExtractor.extract                                              *)
(***************************************************************************)

ModeLlm == <<"l", "l", "m">>
ModeSpacy == <<"s", "p", "a", "c", "y">>

\* mode, in the caller's spelling
ModeAsGiven(mode) == mode

\* mode.lower()
ModeLower(mode) == Lower(mode)

\* The variant that looks at the mode before the text.
ExtractModeFirst(key, loaded, text, mode, env, trace) ==
    IF ModeLower(mode) # ModeLlm /\ ModeLower(mode) # ModeSpacy
    THEN [outcome |-> Raised("ValueError"), nlp |-> loaded, trace |-> trace]
    ELSE IF text = <<>> \/ Strip(text) = <<>>
    THEN [outcome |-> Returned(<<>>), nlp |-> loaded, trace |-> trace]
    ELSE IF ModeLower(mode) = ModeLlm
    THEN LET r == ExtractWithLlm(key, env.reply, trace)
         IN  [outcome |-> r.outcome, nlp |-> loaded, trace |-> r.trace]
    ELSE ExtractWithSpacy(loaded, env, trace)

\* extract: [outcome, nlp, trace].
Extract(key, loaded, text, mode, env, trace) ==
    IF text = <<>> \/ Strip(text) = <<>>
    THEN [outcome |-> Returned(<<>>), nlp |-> loaded, trace |-> trace]
    ELSE IF ModeLower(mode) = ModeLlm
    THEN LET r == ExtractWithLlm(key, env.reply, trace)
         IN  [outcome |-> r.outcome, nlp |-> loaded, trace |-> r.trace]
    ELSE IF ModeLower(mode) = ModeSpacy
    THEN ExtractWithSpacy(loaded, env, trace)
    ELSE [outcome |-> Raised("ValueError"), nlp |-> loaded, trace |-> trace]


\* The words of the parsed sentences and of the model's answers.
W_eats == <<"e", "a", "t", "s">>
W_eat == <<"e", "a", "t">>
W_went == <<"w", "e", "n", "t">>
W_is == <<"i", "s">>
W_be == <<"b", "e">>
W_the == <<"t", "h", "e">>
W_cat == <<"c", "a", "t">>
W_mouse == <<"m", "o", "u", "s", "e">>
W_red == <<"r", "e", "d">>
W_fish == <<"f", "i", "s", "h">>
W_king == <<"k", "i", "n", "g">>
W_in == <<"i", "n">>
W_hat == <<"h", "a", "t">>
W_up == <<"u", "p">>
W_fast == <<"f", "a", "s", "t">>
W_she == <<"s", "h", "e">>
W_runs == <<"r", "u", "n", "s">>
W_run == <<"r", "u", "n">>
W_races == <<"r", "a", "c", "e", "s">>
W_Paris == <<"P", "a", "r", "i", "s">>
W_France == <<"F", "r", "a", "n", "c", "e">>
W_key == <<"k", "e", "y">>
W_is_in_padded == <<" ", "i", "s", " ", "i", "n", " ">>

(***************************************************************************)
(* KnowledgeExtractor: the calls and what the outside answers              *)
(***************************************************************************)

\* The most children the root of a parsed sentence has.
MaxChildren == 3

\* The roots of the parsed sentences: a verb, a verb the lemmatizer gives no
\* lemma, and an auxiliary.
Roots ==
    { [text |-> W_eats, lemma |-> W_eat, pos |-> "VERB"],
      [text |-> W_went, lemma |-> <<>>, pos |-> "VERB"],
      [text |-> W_is, lemma |-> W_be, pos |-> "AUX"] }

\* What hangs from the root: a subject with its determiner, a passive
\* subject, a direct object with an adjective, an attribute, a preposition
\* with its object, a preposition without one, and a clause with a verb,
\* subject and object of its own.
Kinds == {"nsubj", "nsubjpass", "dobj", "attr", "prep_pobj", "prep_bare", "ccomp"}

\* The tokens of one child of the root (token 0) and of what hangs from it,
\* the first of them at index at.
KidTokens(kind, at) ==
    CASE kind = "nsubj" ->
             <<Tok(at, W_the, W_the, "DET", "det", at + 1),
               Tok(at + 1, W_cat, W_cat, "NOUN", "nsubj", 0)>>
      [] kind = "nsubjpass" ->
             <<Tok(at, W_mouse, W_mouse, "NOUN", "nsubjpass", 0)>>
      [] kind = "dobj" ->
             <<Tok(at, W_red, W_red, "ADJ", "amod", at + 1),
               Tok(at + 1, W_fish, W_fish, "NOUN", "dobj", 0)>>
      [] kind = "attr" ->
             <<Tok(at, W_king, W_king, "NOUN", "attr", 0)>>
      [] kind = "prep_pobj" ->
             <<Tok(at, W_in, W_in, "ADP", "prep", 0),
               Tok(at + 1, W_hat, W_hat, "NOUN", "pobj", at)>>
      [] kind = "prep_bare" ->
             <<Tok(at, W_up, W_up, "ADP", "prep", 0),
               Tok(at + 1, W_fast, W_fast, "ADV", "advmod", at)>>
      [] kind = "ccomp" ->
             <<Tok(at, W_she, W_she, "PRON", "nsubj", at + 1),
               Tok(at + 1, W_runs, W_run, "VERB", "ccomp", 0),
               Tok(at + 2, W_races, W_races, "NOUN", "dobj", at + 1)>>

RECURSIVE Layout(_, _)
Layout(kids, at) ==
    IF kids = <<>> THEN <<>>
    ELSE LET first == KidTokens(Head(kids), at)
         IN  first \o Layout(Tail(kids), at + Len(first))

\* The parse of one sentence: the root, then its children in order.  Indices
\* count from the sentence's first token.
Sentence(root, kids) ==
    <<Tok(0, root.text, root.lemma, root.pos, "ROOT", 0)>> \o Layout(kids, 1)

Sentences == {Sentence(root, kids) : root \in Roots, kids \in SeqsUpTo(Kinds, MaxChildren)}

\* The sentences that come first in a doc of two.
FirstSentences ==
    { Sentence([text |-> W_eats, lemma |-> W_eat, pos |-> "VERB"], <<"nsubj", "dobj">>),
      Sentence([text |-> W_is, lemma |-> W_be, pos |-> "AUX"], <<"attr">>) }

\* What nlp(text) returns.
Docs ==
    {<<>>} \cup {<<sent>> : sent \in Sentences}
           \cup {<<first, sent>> : first \in FirstSentences, sent \in Sentences}

SmallDocs ==
    { <<Sentence([text |-> W_eats, lemma |-> W_eat, pos |-> "VERB"], <<"nsubj", "dobj">>)>>,
      <<Sentence([text |-> W_eats, lemma |-> W_eat, pos |-> "VERB"], <<"prep_pobj", "nsubj">>),
        Sentence([text |-> W_is, lemma |-> W_be, pos |-> "AUX"], <<"nsubj", "attr">>)>> }

\* What the hosted model answers: [error, contentIsNone, content].
RequestFails == [error |-> TRUE, contentIsNone |-> FALSE, content |-> <<>>]
NoContent == [error |-> FALSE, contentIsNone |-> TRUE, content |-> <<>>]
Answer(content) == [error |-> FALSE, contentIsNone |-> FALSE, content |-> content]

\* {"subject": "Paris", "predicate": " is in ", "object": "France", "confidence": 1}
ParisDict ==
    JDict(<<Field("subject", JStr(W_Paris)), Field("predicate", JStr(W_is_in_padded)),
            Field("object", JStr(W_France)), Field("confidence", JNum(<<"1">>))>>)

\* {"subject": 7, "predicate": null, "object": "  "}
OddDict ==
    JDict(<<Field("subject", JNum(<<"7">>)), Field("predicate", JNull),
            Field("object", JStr(<<" ", " ">>))>>)

\* {"subject": "cat", "predicate": "eat"}
ShortDict == JDict(<<Field("subject", JStr(W_cat)), Field("predicate", JStr(W_eat))>>)

JsonValues ==
    { JList(<<ParisDict>>),
      ParisDict,
      JList(<<ShortDict, OddDict>>),
      JList(<<ParisDict, JNum(<<"5">>)>>),
      JList(<<JList(<<JStr(KeyChars.subject), JStr(KeyChars.predicate), JStr(KeyChars.object)>>)>>),
      JStr(KeyChars.subject \o <<" ">> \o KeyChars.predicate \o <<" ">> \o KeyChars.object),
      JStr(W_cat),
      JNum(<<"5">>),
      JNull,
      JList(<<>>),
      JList(<<ShortDict>>) }

Wrappings(v) ==
    { <<LexJson(v)>>,
      <<Lex("fence_json"), Lex("newline"), LexJson(v), Lex("newline"), Lex("fence")>>,
      <<Lex("fence_json"), LexJson(v), Lex("fence"), Lex("newline")>>,
      <<Lex("spaces"), LexJson(v), Lex("newline"), Lex("spaces")>>,
      <<Lex("fence"), Lex("newline"), LexJson(v), Lex("newline"), Lex("fence")>>,
      <<Lex("prose"), Lex("newline"), LexJson(v)>>,
      <<Lex("fence_json"), Lex("newline"), LexJson(v), Lex("newline"), Lex("fence"),
        Lex("newline"), Lex("prose")>>,
      <<LexJson(v), Lex("fence"), Lex("spaces")>> }

Replies ==
    {RequestFails, NoContent, Answer(<<>>), Answer(<<Lex("prose")>>)}
        \cup {Answer(<<LexJson(v)>>) : v \in JsonValues}
        \cup {Answer(content) : content \in Wrappings(JList(<<ParisDict>>))}

SmallReplies ==
    { RequestFails, Answer(<<Lex("prose")>>),
      Answer(<<Lex("fence_json"), Lex("newline"), LexJson(JList(<<ParisDict>>)),
               Lex("newline"), Lex("fence")>>) }

\* groq_api_key: None (the default), "" and a key.
Keys == {PyNone, PyStr(<<>>), PyStr(W_key)}

Texts == { <<>>, <<" ">>, <<"\n", " ", "\t">>, W_cat, <<" ">> \o W_cat \o <<"\n">> }

Modes ==
    { ModeLlm, <<"L", "L", "M">>, <<"L", "l", "m">>,
      ModeSpacy, <<"S", "P", "A", "C", "Y">>, <<"s", "p", "a", "C", "y">>,
      <<>>, <<"l", "l", "m", " ">>, <<"n", "l", "p">> }

NoTrace == [ran |-> {}, clients |-> 0, requests |-> 0]
NoOutcome == [kind |-> "none", exc |-> "", value |-> <<>>]
NoCall == [method |-> "none", text |-> <<>>, mode |-> <<>>]
NoEnv == [reply |-> RequestFails, doc |-> <<>>, modelInstalled |-> FALSE]

\* KnowledgeExtractor(): no key, no model loaded, nothing called yet.
ExtractorInit ==
    /\ groq_api_key = PyNone
    /\ nlp = FALSE
    /\ exInput = NoCall
    /\ exEnv = NoEnv
    /\ exPc = "ready"
    /\ exOutcome = NoOutcome
    /\ exTrace = NoTrace

\* KnowledgeExtractor(groq_api_key), about to be called once: the call and the
\* outside's answers are fixed here.
LlmInputs ==
    /\ groq_api_key \in Keys
    /\ exInput = [method |-> "extract_with_llm", text |-> W_cat, mode |-> <<>>]
    /\ \E reply \in Replies : exEnv = [NoEnv EXCEPT !.reply = reply]

SpacyInputs ==
    /\ groq_api_key = PyNone
    /\ exInput = [method |-> "extract_with_spacy", text |-> W_cat, mode |-> <<>>]
    /\ \E doc \in Docs, installed \in BOOLEAN :
           exEnv = [NoEnv EXCEPT !.doc = doc, !.modelInstalled = installed]

ExtractInputs ==
    /\ groq_api_key \in Keys
    /\ \E text \in Texts, mode \in Modes :
           exInput = [method |-> "extract", text |-> text, mode |-> mode]
    /\ \E reply \in SmallReplies, doc \in SmallDocs, installed \in BOOLEAN :
           exEnv = [reply |-> reply, doc |-> doc, modelInstalled |-> installed]

ExtractorInputs ==
    /\ nlp = FALSE
    /\ exPc = "ready"
    /\ exOutcome = NoOutcome
    /\ exTrace = NoTrace
    /\ (LlmInputs \/ SpacyInputs \/ ExtractInputs)

ExtractWithLlmCall ==
    /\ exPc = "ready"
    /\ exInput.method = "extract_with_llm"
    /\ LET r == ExtractWithLlm(groq_api_key, exEnv.reply, exTrace)
       IN  /\ exOutcome' = r.outcome
           /\ exTrace' = r.trace
    /\ exPc' = "done"
    /\ UNCHANGED <<groq_api_key, nlp, exInput, exEnv, neoVars, graphVars>>

ExtractWithSpacyCall ==
    /\ exPc = "ready"
    /\ exInput.method = "extract_with_spacy"
    /\ LET r == ExtractWithSpacy(nlp, exEnv, exTrace)
       IN  /\ exOutcome' = r.outcome
           /\ nlp' = r.nlp
           /\ exTrace' = r.trace
    /\ exPc' = "done"
    /\ UNCHANGED <<groq_api_key, exInput, exEnv, neoVars, graphVars>>

ExtractCall ==
    /\ exPc = "ready"
    /\ exInput.method = "extract"
    /\ LET r == Extract(groq_api_key, nlp, exInput.text, exInput.mode, exEnv, exTrace)
       IN  /\ exOutcome' = r.outcome
           /\ nlp' = r.nlp
           /\ exTrace' = r.trace
    /\ exPc' = "done"
    /\ UNCHANGED <<groq_api_key, exInput, exEnv, neoVars, graphVars>>

ExtractorNext ==
    \/ ExtractWithLlmCall
    \/ ExtractWithSpacyCall
    \/ ExtractCall

Init == NeoInit /\ GraphInit /\ ExtractorInit

InitExtractor == NeoInit /\ GraphInit /\ ExtractorInputs

SpecNeo == Init /\ [][NeoNext]_vars

SpecGraph == Init /\ [][GraphNext]_vars

SpecExtractor == InitExtractor /\ [][ExtractorNext]_vars

(***************************************************************************)
(* Neo4jHandler: the claims                                                *)
(***************************************************************************)

\* C3: after delete_graph(g) the database holds no Entity node whose
\* graph_name is g and no RELATION relationship whose graph_name is g.
C3_DeleteGraphRemovesGraph ==
    neoOp.op = "delete_graph" =>
        /\ \A n \in nodes : n.graph_name # neoOp.graph_name
        /\ \A r \in DOMAIN rels : r.graph_name # neoOp.graph_name

\* C4: after store_triples calls only, get_all_triples(graph_name=g) returns
\* exactly the triples stored with graph name g, each once.
C4_GetAllTriplesReturnsStored ==
    (neoOp.op = "get_all_triples" /\ neoOp.graph_name \in GraphNames /\ onlyStores) =>
        neoResult = SetToBag({t \in NeoTriples : <<neoOp.graph_name, t>> \in storedUnder})

\* C10: store_triples merges rather than duplicates: storing the list just
\* stored once more under the same graph name leaves the nodes, their
\* graph_name and the relationships as they are, and no two Entity nodes
\* ever carry the same name.
C10_StoreTriplesMerges ==
    /\ neoOp.op = "store_triples" =>
           StoreTriples(Database, neoOp.triples, neoOp.graph_name) = Database
    /\ \A n1, n2 \in nodes : n1.name = n2.name => n1 = n2

\* A list of two triples was stored into a database that already held
\* relationships of the other graph name.
C10_Witness ==
    /\ neoOp.op = "store_triples"
    /\ Len(neoOp.triples) = 2
    /\ neoOp.triples[1] # neoOp.triples[2]
    /\ \E r \in DOMAIN rels : r.graph_name # neoOp.graph_name
    /\ \E r \in DOMAIN rels : r.graph_name = neoOp.graph_name
    /\ Cardinality(nodes) = 3

(***************************************************************************)
(* GraphBuilder: the claims                                                *)
(***************************************************************************)

HasEdge(g, u, v) == \E i \in DOMAIN g.edges : g.edges[i].source = u /\ g.edges[i].target = v

\* C2: after build_graph(triples), every triple of the list has a directed
\* edge from its subject to its object whose label is its predicate.
C2_EveryTripleHasItsEdge ==
    graphOp.op = "build_graph" =>
        \A k \in DOMAIN graphOp.triples :
            \E i \in DOMAIN graph.edges :
                /\ graph.edges[i].source = graphOp.triples[k].subject
                /\ graph.edges[i].target = graphOp.triples[k].object
                /\ graph.edges[i].label = graphOp.triples[k].predicate

\* A simple directed path of g from source to target.
IsSimplePath(g, path, source, target) ==
    /\ Len(path) >= 1
    /\ path[1] = source
    /\ path[Len(path)] = target
    /\ \A i \in 1..(Len(path) - 1) : HasEdge(g, path[i], path[i + 1])
    /\ \A i, j \in DOMAIN path : path[i] = path[j] => i = j

\* C6: find_paths(source, target) returns exactly the simple directed paths
\* from source to target, each once (the one-node path from a node to itself
\* may or may not be listed), and the empty list when no graph was built or
\* when source or target is not a node of the graph.
C6_FindPathsExactlySimplePaths ==
    graphOp.op = "find_paths" =>
        LET source == graphOp.source
            target == graphOp.target
            names == Range(graph.nodes)
        IN  /\ \A i \in DOMAIN graphResult :
                   IsSimplePath(graph, graphResult[i], source, target)
            /\ \A path \in SeqsUpTo(names, Cardinality(names)) :
                   (Len(path) >= 2 /\ IsSimplePath(graph, path, source, target))
                       => path \in Range(graphResult)
            /\ \A i, j \in DOMAIN graphResult : graphResult[i] = graphResult[j] => i = j
            /\ (~graph.built \/ source \notin names \/ target \notin names)
                   => graphResult = <<>>

\* How many edges of the graph leave or enter node n.
TotalDegree(g, n) ==
    Cardinality({i \in DOMAIN g.edges : g.edges[i].source = n})
    + Cardinality({i \in DOMAIN g.edges : g.edges[i].target = n})

Smaller(a, b) == IF a < b THEN a ELSE b

\* C11: get_central_nodes(top_n) with top_n >= 0 returns min(top_n, number of
\* nodes) pairs (node, score), each a node of the graph and no node twice,
\* in order of non-increasing degree centrality, which orders the nodes as
\* in-degree plus out-degree does; it returns the empty list when no graph
\* was built or the graph has no node.
C11_CentralNodesTopByDegree ==
    (graphOp.op = "get_central_nodes" /\ graphOp.top_n >= 0) =>
        LET r == graphResult
            n == IF graph.built THEN Cardinality(Range(graph.nodes)) ELSE 0
        IN  /\ Len(r) = Smaller(graphOp.top_n, n)
            /\ \A i \in DOMAIN r : r[i].node \in Range(graph.nodes)
            /\ \A i, j \in DOMAIN r : i # j => r[i].node # r[j].node
            /\ \A i, j \in DOMAIN r :
                  i < j => /\ ~Less(r[i].score, r[j].score)
                           /\ TotalDegree(graph, r[i].node) >= TotalDegree(graph, r[j].node)
            /\ (~graph.built \/ n = 0) => r = <<>>

\* Three nodes of unequal degree, the two of highest degree returned in
\* that order.
C11_Witness ==
    /\ graphOp.op = "get_central_nodes"
    /\ graphOp.top_n = 2
    /\ Len(graph.nodes) = 3
    /\ Len(graphResult) = 2
    /\ TotalDegree(graph, graphResult[1].node) > TotalDegree(graph, graphResult[2].node)
    /\ graphResult[1].node # graph.nodes[1]

\* The distinct subject and object strings of a list of triples.
StringsOf(triples) ==
    {triples[i].subject : i \in DOMAIN triples} \cup {triples[i].object : i \in DOMAIN triples}

\* The distinct ordered (subject, object) pairs of a list of triples.
PairsOf(triples) == {<<triples[i].subject, triples[i].object>> : i \in DOMAIN triples}

\* C12: after build_graph(triples), whatever was built before, the nodes of
\* the graph are exactly the distinct subject and object strings of that
\* call's triples, and a get_graph_stats call that follows reports their
\* number as num_nodes and the number of distinct ordered (subject, object)
\* pairs as num_edges; before any build_graph call get_graph_stats returns
\* the empty dictionary.
C12_NodesAndStatsOfLastBuild ==
    [][ /\ graphOp'.op = "build_graph" =>
              /\ Range(graph'.nodes) = StringsOf(graphOp'.triples)
              /\ Len(graph'.nodes) = Cardinality(StringsOf(graphOp'.triples))
        /\ (graphOp.op = "build_graph" /\ graphOp'.op = "get_graph_stats") =>
              /\ ~graphResult'.empty
              /\ graphResult'.num_nodes = Cardinality(StringsOf(graphOp.triples))
              /\ graphResult'.num_edges = Cardinality(PairsOf(graphOp.triples))
        /\ (~graph.built /\ graphOp'.op = "get_graph_stats") => graphResult'.empty
      ]_vars

\* Statistics of a graph of three nodes and two edges, one of them the edge
\* that two triples of the list share.
C12_Witness ==
    /\ graphOp.op = "get_graph_stats"
    /\ graph.built
    /\ graphResult.num_nodes = 3
    /\ graphResult.num_edges = 2
    /\ \E i \in DOMAIN graph.edges : graph.edges[i].label = "q"

(***************************************************************************)
(* KnowledgeExtractor: the claims                                          *)
(***************************************************************************)

Done(method) == exPc = "done" /\ exInput.method = method

\* C1: every element of the list extract returns, in either mode, is a
\* record with exactly the keys subject, predicate and object.
C1_TriplesHaveExactlyThreeKeys ==
    (Done("extract") /\ exOutcome.kind = "return") =>
        \A i \in DOMAIN exOutcome.value :
            DOMAIN exOutcome.value[i] = {"subject", "predicate", "object"}

\* extract in a spelling of 'llm' returned a triple made from an answer
\* whose object carried a fourth key.
C1_Witness ==
    /\ Done("extract")
    /\ exInput.mode = <<"L", "l", "m">>
    /\ exOutcome.kind = "return"
    /\ Len(exOutcome.value) = 1
    /\ \E i \in DOMAIN exEnv.reply.content :
           /\ exEnv.reply.content[i].kind = "json"
           /\ exEnv.reply.content[i].value = JList(<<ParisDict>>)

\* The sentence has a ROOT token tagged VERB with a subject child (nsubj or
\* nsubjpass) and an object: a dobj/attr/oprd child, or the pobj of a prep
\* child.
HasRootVerbSubjectObject(sent) ==
    \E r \in DOMAIN sent :
        /\ sent[r].pos = "VERB"
        /\ sent[r].dep = "ROOT"
        /\ \E c \in DOMAIN sent :
               /\ c # r
               /\ sent[c].head = sent[r].i
               /\ sent[c].dep \in {"nsubj", "nsubjpass"}
        /\ \E c \in DOMAIN sent :
               /\ c # r
               /\ sent[c].head = sent[r].i
               /\ \/ sent[c].dep \in {"dobj", "attr", "oprd"}
                  \/ /\ sent[c].dep = "prep"
                     /\ \E p \in DOMAIN sent :
                            p # c /\ sent[p].head = sent[c].i /\ sent[p].dep = "pobj"

\* C5: extract_with_spacy emits at most one triple per sentence, and only
\* for a sentence with a ROOT verb, a subject child and an object; every
\* emitted subject, predicate and object is non-empty.
C5_SpacyOneTriplePerCompleteSentence ==
    (Done("extract_with_spacy") /\ exOutcome.kind = "return") =>
        /\ Len(exOutcome.value) <= Len(exEnv.doc)
        /\ Len(exOutcome.value) <=
               Cardinality({k \in DOMAIN exEnv.doc : HasRootVerbSubjectObject(exEnv.doc[k])})
        /\ Len(exEnv.doc) = 1 =>
               (exOutcome.value # <<>> => HasRootVerbSubjectObject(exEnv.doc[1]))
        /\ \A i \in DOMAIN exOutcome.value :
               /\ exOutcome.value[i].subject # <<>>
               /\ exOutcome.value[i].predicate # <<>>
               /\ exOutcome.value[i].object # <<>>

\* A doc of two sentences, the first complete and the second without an
\* object, gave one triple.
C5_Witness ==
    /\ Done("extract_with_spacy")
    /\ exOutcome.kind = "return"
    /\ Len(exEnv.doc) = 2
    /\ HasRootVerbSubjectObject(exEnv.doc[1])
    /\ ~HasRootVerbSubjectObject(exEnv.doc[2])
    /\ \E k \in DOMAIN exEnv.doc[2] : exEnv.doc[2][k].dep = "nsubj"
    /\ Len(exOutcome.value) = 1

NonBlank(text) == \E i \in DOMAIN text : ~IsSpace(text[i])

SameIgnoringCase(a, b) ==
    /\ Len(a) = Len(b)
    /\ \A i \in DOMAIN a :
           \/ a[i] = b[i]
           \/ \E k \in DOMAIN UpperLetters : {a[i], b[i]} = {UpperLetters[k], LowerLetters[k]}

\* C8: for non-blank text, extract takes the path its mode names, compared
\* without regard to case: 'llm' runs only the LLM path, 'spacy' only the
\* spaCy path, and any other mode raises ValueError with neither path run.
C8_ModeChoosesPath ==
    (Done("extract") /\ NonBlank(exInput.text)) =>
        /\ SameIgnoringCase(exInput.mode, ModeLlm) => exTrace.ran = {"llm"}
        /\ SameIgnoringCase(exInput.mode, ModeSpacy) => exTrace.ran = {"spacy"}
        /\ (~SameIgnoringCase(exInput.mode, ModeLlm) /\ ~SameIgnoringCase(exInput.mode, ModeSpacy))
               => (exOutcome = Raised("ValueError") /\ exTrace.ran = {})

\* extract with mode 'SPACY' and a non-blank text ran the spaCy path and
\* returned its triples.
C8_Witness ==
    /\ Done("extract")
    /\ NonBlank(exInput.text)
    /\ exInput.mode = <<"S", "P", "A", "C", "Y">>
    /\ exTrace.ran = {"spacy"}
    /\ exOutcome.kind = "return"
    /\ exOutcome.value # <<>>

\* C9: extract_with_llm with a key that is None or empty raises ValueError
\* with no client created and no request made.
C9_NoKeyRaisesBeforeClient ==
    (Done("extract_with_llm") /\ (groq_api_key.isNone \/ groq_api_key.value = <<>>)) =>
        /\ exOutcome = Raised("ValueError")
        /\ exTrace.clients = 0
        /\ exTrace.requests = 0

\* extract_with_llm was called on an extractor built with the key "".
C9_Witness ==
    /\ Done("extract_with_llm")
    /\ groq_api_key = PyStr(<<>>)
    /\ exOutcome = Raised("ValueError")
    /\ exTrace.clients = 0

\* C13: extract on a text that is empty or only whitespace returns the
\* empty list for every mode, valid or not, with or without a key: the
\* spaCy model is not loaded, neither path runs, no client is created, no
\* request is made and nothing is raised.
C13_BlankTextReturnsEmpty ==
    (Done("extract") /\ ~NonBlank(exInput.text)) =>
        /\ exOutcome = Returned(<<>>)
        /\ nlp = FALSE
        /\ exTrace = NoTrace

\* extract was called with a text of whitespace only and a mode that names
\* no path, on an extractor without a key.
C13_Witness ==
    /\ Done("extract")
    /\ exInput.text = <<"\n", " ", "\t">>
    /\ exInput.mode = <<"n", "l", "p">>
    /\ groq_api_key = PyNone
    /\ exOutcome = Returned(<<>>)

\* What json.loads gives for the cleaned answer of a reply with content.
ParsedAnswer(reply) == JsonLoads(CleanResponse(reply.content))

\* The answer parses, and validating its elements raises.
CannotBeValidated(reply) ==
    /\ ParsedAnswer(reply).raised = ""
    /\ LET value == ParsedAnswer(reply).value
       IN  ValidTriples(IF value.type = "list" THEN value.items ELSE <<value>>).raised # ""

HasDirectAndPrepositionalObject(sent, r, d) ==
    /\ sent[r].pos = "VERB"
    /\ sent[r].dep = "ROOT"
    /\ d # r
    /\ sent[d].head = sent[r].i
    /\ sent[d].dep \in {"dobj", "attr", "oprd"}
    /\ \E c \in DOMAIN sent :
           c # r /\ sent[c].head = sent[r].i /\ sent[c].dep \in {"nsubj", "nsubjpass"}
    /\ \E c, p \in DOMAIN sent :
           /\ c # r
           /\ sent[c].head = sent[r].i
           /\ sent[c].dep = "prep"
           /\ p # c
           /\ sent[p].head = sent[c].i
           /\ sent[p].dep = "pobj"

\* The predicates a root verb can give with at most one preposition: its
\* lemma, or the lemma, a space and the text of one of its prepositions.
AtMostOnePreposition(sent, r) ==
    {sent[r].lemma} \cup
    { sent[r].lemma \o <<" ">> \o sent[c].text :
        c \in {k \in DOMAIN sent : k # r /\ sent[k].head = sent[r].i /\ sent[k].dep = "prep"} }

\* C15: in extract_with_spacy a prepositional object is used only if there
\* is no direct object: for a sentence whose root verb has a subject, a
\* direct object and a preposition with its object, in whatever order, the
\* triple's object is a direct object's phrase and its predicate is the bare
\* lemma of the verb; and no predicate has more than one preposition
\* appended.
C15_DirectObjectBeatsPreposition ==
    (Done("extract_with_spacy") /\ exOutcome.kind = "return" /\ Len(exEnv.doc) = 1) =>
        LET sent == exEnv.doc[1]
        IN  \A r \in DOMAIN sent :
                /\ (/\ exOutcome.value # <<>>
                    /\ \E d \in DOMAIN sent : HasDirectAndPrepositionalObject(sent, r, d)) =>
                      /\ \E d \in DOMAIN sent :
                             /\ HasDirectAndPrepositionalObject(sent, r, d)
                             /\ exOutcome.value[1].object = GetFullPhrase(sent, sent[d])
                      /\ exOutcome.value[1].predicate = sent[r].lemma
                /\ (IsRootVerb(sent[r]) /\ exOutcome.value # <<>>) =>
                      exOutcome.value[1].predicate \in AtMostOnePreposition(sent, r)

====
